---------------------------- MODULE Spec2Model ----------------------------
(***************************************************************************)
(* A model of crisap_GLOBAL_CLD_dashboard.py: the two seeded data          *)
(* generators (generate_climate_data, generate_time_series), the global    *)
(* numpy generator they seed and draw from, and the page script that calls *)
(* them and writes the PDF / DOCX / raw-data exports.                      *)
(*                                                                         *)
(* Numbers are fixed point.  A value rounded to one decimal is kept in     *)
(* tenths, a value rounded to two decimals in hundredths; multipliers are  *)
(* kept in tenths.  round() is round-half-to-even on the exact quotient.   *)
(***************************************************************************)
EXTENDS Integers, Sequences, FiniteSets, TLC

(***************************************************************************)
(* Bounds of the model.                                                    *)
(***************************************************************************)
\* how many regions of each country's list are passed to the functions
NumRegions == 2
\* number of states of the modelled generator (its raw values are 0..RngModulus-1)
RngModulus == 16

(***************************************************************************)
(* Tables of the program.                                                  *)
(***************************************************************************)
country_list == <<"Ghana", "Nigeria", "Kenya", "South Africa", "Egypt", "Morocco", "Tanzania", "Ethiopia">>

region_list ==
    [c \in {country_list[i] : i \in 1..Len(country_list)} |->
        CASE c = "Ghana" -> <<"Greater Accra", "Ashanti", "Northern", "Western", "Eastern", "Central">>
          [] c = "Nigeria" -> <<"Lagos", "Abuja", "Kano", "Rivers", "Kaduna", "Oyo">>
          [] c = "Kenya" -> <<"Nairobi", "Mombasa", "Kisumu", "Nakuru", "Eldoret">>
          [] c = "South Africa" -> <<"Gauteng", "Western Cape", "KwaZulu-Natal", "Eastern Cape">>
          [] c = "Egypt" -> <<"Cairo", "Alexandria", "Giza", "Luxor">>
          [] c = "Morocco" -> <<"Casablanca", "Rabat", "Marrakech", "Fes">>
          [] c = "Tanzania" -> <<"Dar es Salaam", "Zanzibar", "Arusha", "Mwanza">>
          [] OTHER -> <<"Addis Ababa", "Dire Dawa", "Bahir Dar", "Mekelle">>]

timeframe_options == <<"2030", "2050", "2070", "2100">>

scenario_options == <<"RCP 2.6 (Low emissions)", "RCP 4.5 (Intermediate)", "RCP 8.5 (High emissions)">>

\* multipliers in tenths: 0.7, 1.0, 1.5
scenario_multiplier ==
    [s \in {"RCP 2.6 (Low emissions)", "RCP 4.5 (Intermediate)", "RCP 8.5 (High emissions)"} |->
        CASE s = "RCP 2.6 (Low emissions)" -> 7
          [] s = "RCP 4.5 (Intermediate)" -> 10
          [] OTHER -> 15]

\* multipliers in tenths: 0.8, 1.0, 1.3, 1.6
time_multiplier ==
    [t \in {"2030", "2050", "2070", "2100"} |->
        CASE t = "2030" -> 8
          [] t = "2050" -> 10
          [] t = "2070" -> 13
          [] OTHER -> 16]

\* the nine keys of the snapshot, in the order of the dict literal
MetricKeys == <<"Temperature Increase", "Precipitation Change", "Sea Level Rise", "Drought Risk", "Flood Risk", "Agricultural Yield Change", "Economic Loss (billion USD)", "Health Impact Index", "Water Stress Index">>

\* the four metric columns of the series, in the order of the dict literal
SeriesKeys == <<"Temperature Change", "Economic Impact", "Agricultural Yield", "Water Availability">>

Range(s) == {s[i] : i \in 1..Len(s)}

Min(a, b) == IF a <= b THEN a ELSE b

(***************************************************************************)
(* Inputs.  The functions accept any strings; the values below the tables  *)
(* are the out-of-table inputs the model also passes.                      *)
(***************************************************************************)
UnknownCountry == "Atlantis"
UnknownRegion == "All Regions"
UnknownTimeframe == "2040"
UnknownScenario == "RCP 6.0"

Countries == {country_list[1]}

RegionsOf(c) == {region_list[c][i] : i \in 1..Min(NumRegions, Len(region_list[c]))}

\* (country, region) pairs passed to the functions
Places == UNION {{<<c, r>> : r \in RegionsOf(c)} : c \in Countries}

AllPlaces == Places \cup {<<UnknownCountry, UnknownRegion>>}

Timeframes == Range(timeframe_options)
Scenarios == Range(scenario_options)

\* (start_year, end_year) pairs passed to generate_time_series; the first is
\* the pair of defaults, which is what the page passes
YearPairs == {<<2020, 2100>>, <<2020, 2030>>, <<2020, 2035>>, <<2030, 2020>>, <<2030, 2030>>, <<2010, 2029>>}

(***************************************************************************)
(* Arithmetic.                                                             *)
(***************************************************************************)
\* round(n / d) to the nearest integer, ties to even; d > 0
RoundDiv(n, d) ==
    LET q == n \div d
        r == n % d
    IN  IF 2 * r < d THEN q
        ELSE IF 2 * r > d THEN q + 1
        ELSE IF q % 2 = 0 THEN q ELSE q + 1

Max(a, b) == IF a >= b THEN a ELSE b


(***************************************************************************)
(* hash(): the string hash of the running process.  It is salted per       *)
(* process (hashSalt) and fixed while the process runs.  The f-string is   *)
(* hashed part by part; StrCode stands for the characters of a part.       *)
(***************************************************************************)
StringTable == country_list \o <<UnknownCountry, UnknownRegion, UnknownTimeframe, UnknownScenario, "timeseries", "Region A", "Region B", "Region C">> \o timeframe_options \o scenario_options \o region_list["Ghana"] \o region_list["Nigeria"] \o region_list["Kenya"] \o region_list["South Africa"] \o region_list["Egypt"] \o region_list["Morocco"] \o region_list["Tanzania"] \o region_list["Ethiopia"]

StrCode(s) == CHOOSE i \in 1..Len(StringTable) : StringTable[i] = s

HashModulus == 1000003

RECURSIVE HashParts(_, _)
HashParts(parts, h) ==
    IF parts = <<>> THEN h
    ELSE HashParts(Tail(parts), (h * 31 + StrCode(Head(parts)) + Len(Head(parts))) % HashModulus)

hash(parts, salt) == HashParts(parts, 7919 * (salt + 1))

SeedModulus == 10000

\* line 108: hash(f"{country}_{region}_{timeframe}_{scenario}") % 10000
ClimateSeed(country, region, timeframe, scenario, salt) ==
    hash(<<country, region, timeframe, scenario>>, salt) % SeedModulus

\* line 150: hash(f"{country}_{region}_{scenario}_timeseries") % 10000
SeriesSeed(country, region, scenario, salt) ==
    hash(<<country, region, scenario, "timeseries">>, salt) % SeedModulus

(***************************************************************************)
(* numpy's global generator.  Its state is one number; seed() sets it from *)
(* the seed, every draw advances it and returns a raw value u in           *)
(* 0..RngModulus-1.                                                        *)
(***************************************************************************)
RngStates == 0..(RngModulus - 1)

\* np.random.seed(seed)
SeedState(seed) == seed % RngModulus

\* the state after one draw; the raw value drawn is the new state
Advance(g) == (5 * g + 3) % RngModulus

\* np.random.uniform(lo, hi) for raw value u, lo and hi in tenths:
\* the value is UniformNum / (10 * RngModulus)
UniformNum(lo, hi, u) == lo * RngModulus + (hi - lo) * u

\* np.random.normal(0, sd) for raw value u, sd in hundredths: the value in
\* thousandths.  The standard deviate runs from about -6.4 to +5.6.
NormalMilli(sd, u) == sd * 4 * (2 * u - RngModulus)

(***************************************************************************)
(* A call of one of the two functions: its arguments, its position, its    *)
(* locals and the result it is building.  draws lists, in order, what each *)
(* value the call took from the generator was taken for.                   *)
(***************************************************************************)
NoCall ==
    [fn |-> "none", status |-> "idle", pc |-> 0, error |-> "",
     country |-> "", region |-> "", timeframe |-> "", scenario |-> "",
     start_year |-> 0, end_year |-> 0,
     economic_loss |-> 0, data |-> <<>>, years |-> <<>>, cols |-> <<>>, draws |-> <<>>]

ClimateCall(country, region, timeframe, scenario) ==
    [NoCall EXCEPT !.fn = "generate_climate_data", !.status = "running",
                   !.country = country, !.region = region,
                   !.timeframe = timeframe, !.scenario = scenario]

SeriesCall(country, region, scenario, start_year, end_year) ==
    [NoCall EXCEPT !.fn = "generate_time_series", !.status = "running",
                   !.country = country, !.region = region, !.scenario = scenario,
                   !.start_year = start_year, !.end_year = end_year]

Raise(f, e) == [f EXCEPT !.status = "raised", !.error = e]

(***************************************************************************)
(* generate_climate_data, statement by statement.  Each operator takes the *)
(* call f and the generator state g and gives the two after the statement. *)
(***************************************************************************)
\* lines 108-109: the seed, and np.random.seed(seed)
ClimateSeedStepUnseeded(f, g, salt) == [f |-> [f EXCEPT !.pc = 1], g |-> g]

ClimateSeedStep(f, g, salt) ==
    [f |-> [f EXCEPT !.pc = 1],
     g |-> SeedState(ClimateSeed(f.country, f.region, f.timeframe, f.scenario, salt))]

\* round(base_economic_loss * (1 + n), 2), in hundredths
EconomicLoss(region, sm, tm, u) ==
    RoundDiv(Len(region) * 25 * sm * tm * (1000 + NormalMilli(20, u)), 10000)

\* lines 126-127: the two table lookups (KeyError on a key that is not in the
\* table), then the normal draw
ClimateLossStep(f, g) ==
    IF f.scenario \notin DOMAIN scenario_multiplier \/ f.timeframe \notin DOMAIN time_multiplier
    THEN [f |-> Raise(f, "KeyError"), g |-> g]
    ELSE LET u == Advance(g)
         IN  [f |-> [f EXCEPT !.pc = 2,
                              !.economic_loss = EconomicLoss(f.region, scenario_multiplier[f.scenario], time_multiplier[f.timeframe], u),
                              !.draws = Append(@, MetricKeys[7])],
              g |-> u]

\* round(x * sm * tm, 1) in tenths, x = num / (10 * RngModulus)
Round1(num, sm, tm) == RoundDiv(num * sm * tm, 100 * RngModulus)

\* round(x * sm * tm, 2), without the division by 100
Round2Unscaled(num, sm, tm) == RoundDiv(num * sm * tm, 10 * RngModulus)

\* round(x * sm * tm / 100, 2) in hundredths, x = num / (10 * RngModulus)
Round2(num, sm, tm) == RoundDiv(num * sm * tm, 1000 * RngModulus)

\* line 137: max(0.1, economic_loss), in hundredths
FlooredLossUnfloored(economic_loss) == economic_loss

FlooredLoss(economic_loss) == Max(10, economic_loss)

\* the value of the k-th entry of the dict literal (lines 131-139) for raw
\* value u; the 7th entry draws nothing
EntryValue(k, u, sm, tm, economic_loss) ==
    CASE k = 1 -> Round1(UniformNum(5, 45, u), sm, tm)
      [] k = 2 -> Round1(UniformNum(-300, 200, u), sm, tm)
      [] k = 3 -> Round1(UniformNum(100, 800, u), sm, tm)
      [] k = 4 -> Round2(UniformNum(0, 1000, u), sm, tm)
      [] k = 5 -> Round2(UniformNum(0, 1000, u), sm, tm)
      [] k = 6 -> Round1(UniformNum(-300, 50, u), sm, tm)
      [] k = 7 -> FlooredLoss(economic_loss)
      [] k = 8 -> Round2(UniformNum(0, 1000, u), sm, tm)
      [] OTHER -> Round2(UniformNum(0, 1000, u), sm, tm)

\* whether the k-th entry calls the generator
EntryDrawsAlways(k) == TRUE

EntryDraws(k) == k # 7

\* lines 131-139: the entry the call is at (entry f.pc - 1)
ClimateEntryStep(f, g) ==
    LET k == f.pc - 1
        u == IF EntryDraws(k) THEN Advance(g) ELSE g
        v == EntryValue(k, u, scenario_multiplier[f.scenario], time_multiplier[f.timeframe], f.economic_loss)
    IN  [f |-> [f EXCEPT !.pc = @ + 1,
                         !.data = Append(@, <<MetricKeys[k], v>>),
                         !.draws = IF EntryDraws(k) THEN Append(@, MetricKeys[k]) ELSE @],
         g |-> u]

\* line 142
ClimateReturnStep(f, g) == [f |-> [f EXCEPT !.status = "returned"], g |-> g]

ClimateStep(f, g, salt) ==
    CASE f.pc = 0 -> ClimateSeedStep(f, g, salt)
      [] f.pc = 1 -> ClimateLossStep(f, g)
      [] f.pc \in 2..10 -> ClimateEntryStep(f, g)
      [] OTHER -> ClimateReturnStep(f, g)

(***************************************************************************)
(* generate_time_series, statement by statement.                           *)
(***************************************************************************)
\* line 147: list(range(start_year, end_year + 1, 10))
YearsExclusive(start_year, end_year) ==
    [i \in 1..(((end_year - 1 - start_year) \div 10) + 1) |-> start_year + 10 * (i - 1)]

Years(start_year, end_year) ==
    [i \in 1..(((end_year - start_year) \div 10) + 1) |-> start_year + 10 * (i - 1)]

\* lines 147-151: the years, the seed, and np.random.seed(seed)
SeriesSeedStepUnseeded(f, g, salt) ==
    [f |-> [f EXCEPT !.pc = 1, !.years = Years(f.start_year, f.end_year), !.cols = <<>>], g |-> g]

SeriesSeedStep(f, g, salt) ==
    [f |-> [f EXCEPT !.pc = 1, !.years = Years(f.start_year, f.end_year), !.cols = <<>>],
     g |-> SeedState(SeriesSeed(f.country, f.region, f.scenario, salt))]

\* the values with the years counted from the decade before 2020
SeriesValueFrom2010(c, year, u, sm, region) ==
    LET dy == year - 2010
    IN  CASE c = 1 -> RoundDiv(UniformNum(1, 5, u) * sm * dy, 10 * RngModulus)
          [] c = 2 -> RoundDiv(Len(region) * 2 * sm * dy * (1000 + NormalMilli(10, u)), 10000)
          [] c = 3 -> RoundDiv(100000 * RngModulus - UniformNum(5, 20, u) * sm * dy, 100 * RngModulus)
          [] OTHER -> RoundDiv(100000 * RngModulus - UniformNum(2, 15, u) * sm * dy, 100 * RngModulus)

\* the value of column c (lines 163-166) for one year and raw value u;
\* columns 1 and 2 in hundredths, columns 3 and 4 in tenths
SeriesValue(c, year, u, sm, region) ==
    LET dy == year - 2020
    IN  CASE c = 1 -> RoundDiv(UniformNum(1, 5, u) * sm * dy, 10 * RngModulus)
          [] c = 2 -> RoundDiv(Len(region) * 2 * sm * dy * (1000 + NormalMilli(10, u)), 10000)
          [] c = 3 -> RoundDiv(100000 * RngModulus - UniformNum(5, 20, u) * sm * dy, 100 * RngModulus)
          [] OTHER -> RoundDiv(100000 * RngModulus - UniformNum(2, 15, u) * sm * dy, 100 * RngModulus)

\* the column and the year of the element the call is at: the four list
\* comprehensions run one after the other, each over all the years
SeriesPositionByYear(f) ==
    [c |-> ((f.pc - 1) % 4) + 1, i |-> ((f.pc - 1) \div 4) + 1]

SeriesPosition(f) ==
    [c |-> ((f.pc - 1) \div Len(f.years)) + 1, i |-> ((f.pc - 1) % Len(f.years)) + 1]

\* lines 163-166: one element of one list comprehension: a draw and the
\* lookup of the scenario (KeyError on a scenario that is not in the table)
SeriesElementStep(f, g) ==
    LET c == SeriesPosition(f).c
        i == SeriesPosition(f).i
        u == Advance(g)
        drawn == [f EXCEPT !.draws = Append(@, <<SeriesKeys[c], f.years[i]>>)]
    IN  IF f.scenario \notin DOMAIN scenario_multiplier
        THEN [f |-> Raise(IF c = 2 THEN f ELSE drawn, "KeyError"), g |-> IF c = 2 THEN g ELSE u]
        ELSE LET v == SeriesValue(c, f.years[i], u, scenario_multiplier[f.scenario], f.region)
             IN  [f |-> [drawn EXCEPT !.pc = @ + 1,
                                      !.cols = IF i = 1 THEN Append(@, <<v>>)
                                               ELSE [@ EXCEPT ![c] = Append(@, v)]],
                  g |-> u]

\* line 169: pd.DataFrame(data); with no years every column is empty
SeriesReturnStep(f, g) ==
    [f |-> [f EXCEPT !.status = "returned",
                     !.cols = IF f.years = <<>> THEN <<<<>>, <<>>, <<>>, <<>>>> ELSE @],
     g |-> g]

SeriesStep(f, g, salt) ==
    CASE f.pc = 0 -> SeriesSeedStep(f, g, salt)
      [] f.pc \in 1..(4 * Len(f.years)) -> SeriesElementStep(f, g)
      [] OTHER -> SeriesReturnStep(f, g)

(***************************************************************************)
(* A call run to its end with nothing else running: how the page script,   *)
(* which is one thread, runs it.                                           *)
(***************************************************************************)
Step(f, g, salt) ==
    IF f.fn = "generate_climate_data" THEN ClimateStep(f, g, salt) ELSE SeriesStep(f, g, salt)

RECURSIVE RunCall(_, _, _)
RunCall(f, g, salt) ==
    IF f.status # "running" THEN [f |-> f, g |-> g]
    ELSE LET n == Step(f, g, salt) IN RunCall(n.f, n.g, salt)

(***************************************************************************)
(* State.                                                                  *)
(***************************************************************************)
VARIABLES
    hashSalt,   \* the salt of hash() in this process
    rng,        \* the state of numpy's global generator
    call,       \* call[t]: the call thread t is in, or was last in
    page        \* the run of the page script: its position, the widgets' values, its data and its output

vars == <<hashSalt, rng, call, page>>

Threads == {1, 2}

\* the salts of hash() a process can start with
HashSalts == {0, 1}

\* the two report handlers
Kinds == {"pdf", "docx"}

\* the page before the script has run
NoPage ==
    [pc |-> "idle", error |-> "",
     selected_country |-> "", selected_region |-> "", selected_timeframe |-> "", selected_scenario |-> "",
     risk_data |-> <<>>, time_series_data |-> [years |-> <<>>, cols |-> <<>>],
     comparison_regions |-> <<>>, comparison_data |-> <<>>,
     report_options |-> {}, clicked |-> "", kind |-> "", tab3 |-> <<>>,
     raised |-> [k \in Kinds |-> ""],
     doc |-> [k \in Kinds |-> [headings |-> <<>>, saved |-> FALSE]],
     temp |-> {}, export_format |-> "", export_data |-> <<>>, download |-> <<>>]

Init ==
    /\ hashSalt \in HashSalts
    /\ rng = 0
    /\ call = [t \in Threads |-> NoCall]
    /\ page = NoPage

\* calls with any arguments, in the tables or not
ClimateCalls ==
    {ClimateCall(p[1], p[2], tf, sc) :
        p \in AllPlaces, tf \in Timeframes \cup {UnknownTimeframe}, sc \in Scenarios \cup {UnknownScenario}}

SeriesCalls ==
    {SeriesCall(p[1], p[2], sc, y[1], y[2]) :
        p \in AllPlaces, sc \in Scenarios \cup {UnknownScenario}, y \in YearPairs}

\* the calls the page makes (lines 172, 173, 321): the arguments are the
\* widgets' values, the years are the defaults
PageClimateCalls ==
    {ClimateCall(p[1], p[2], tf, sc) : p \in Places, tf \in Timeframes, sc \in Scenarios}

PageSeriesCalls ==
    {SeriesCall(p[1], p[2], sc, 2020, 2100) : p \in Places, sc \in Scenarios}

Running(t) == call[t].status = "running"

\* thread t runs a statement of the function it is in
Advances(t, next) ==
    /\ call' = [call EXCEPT ![t] = next.f]
    /\ rng' = next.g
    /\ UNCHANGED <<hashSalt, page>>

\* thread t enters function f and runs its first statements, to np.random.seed
Enter(t, f) ==
    /\ ~Running(t)
    /\ Advances(t, Step(f, rng, hashSalt))

ClimateLoss(t) ==
    /\ Running(t) /\ call[t].fn = "generate_climate_data" /\ call[t].pc = 1
    /\ Advances(t, ClimateLossStep(call[t], rng))

ClimateEntry(t) ==
    /\ Running(t) /\ call[t].fn = "generate_climate_data" /\ call[t].pc \in 2..10
    /\ Advances(t, ClimateEntryStep(call[t], rng))

ClimateReturn(t) ==
    /\ Running(t) /\ call[t].fn = "generate_climate_data" /\ call[t].pc = 11
    /\ Advances(t, ClimateReturnStep(call[t], rng))

SeriesElement(t) ==
    /\ Running(t) /\ call[t].fn = "generate_time_series"
    /\ call[t].pc \in 1..(4 * Len(call[t].years))
    /\ Advances(t, SeriesElementStep(call[t], rng))

SeriesReturn(t) ==
    /\ Running(t) /\ call[t].fn = "generate_time_series"
    /\ call[t].pc = 4 * Len(call[t].years) + 1
    /\ Advances(t, SeriesReturnStep(call[t], rng))

Statement(t) ==
    \/ ClimateLoss(t)
    \/ ClimateEntry(t)
    \/ ClimateReturn(t)
    \/ SeriesElement(t)
    \/ SeriesReturn(t)

\* A caller passes any arguments.
EnterAny(t) == \E f \in ClimateCalls \cup SeriesCalls : Enter(t, f)

Next == EnterAny(1) \/ Statement(1)

Spec == Init /\ [][Next]_vars

(***************************************************************************)
(* Two callers, one at a time inside a function: the script of a page is   *)
(* one thread and runs each call to its end before the next.               *)
(***************************************************************************)
EnterAlone(t) ==
    /\ \A o \in Threads : ~Running(o)
    /\ \E f \in PageClimateCalls \cup PageSeriesCalls : Enter(t, f)

NextSeq == \E t \in Threads : EnterAlone(t) \/ Statement(t)

SpecSeq == Init /\ [][NextSeq]_vars

(***************************************************************************)
(* Two threads inside the functions at the same time: two sessions of the  *)
(* page, whose scripts are two threads of one process and share numpy's    *)
(* global generator.                                                       *)
(***************************************************************************)
\* thread 1 calls generate_climate_data, thread 2 generate_time_series (over
\* one year), each once
ConcurrentCalls(t) ==
    IF t = 1
    THEN {ClimateCall(p[1], p[2], "2050", "RCP 4.5 (Intermediate)") : p \in Places}
    ELSE {SeriesCall(p[1], p[2], "RCP 4.5 (Intermediate)", 2030, 2030) : p \in Places}

EnterConcurrently(t) ==
    /\ call[t].status = "idle"
    /\ \E f \in ConcurrentCalls(t) : Enter(t, f)

NextConc == \E t \in Threads : EnterConcurrently(t) \/ Statement(t)

SpecConc == Init /\ [][NextConc]_vars

(***************************************************************************)
(* Claims about the two functions.                                         *)
(***************************************************************************)
Returned(t, fn) == call[t].fn = fn /\ call[t].status = "returned"

SameClimateArguments(a, b) ==
    /\ a.country = b.country /\ a.region = b.region
    /\ a.timeframe = b.timeframe /\ a.scenario = b.scenario

\* the value the snapshot holds for a key
Value(data, key) == data[CHOOSE k \in 1..Len(data) : data[k][1] = key][2]

\* the generator's n-th state after state g
RECURSIVE Stream(_, _)
Stream(g, n) == IF n = 0 THEN g ELSE Stream(Advance(g), n - 1)

\* C1: two calls of generate_climate_data with the same arguments, made by
\* two callers one after the other with any other calls of the two functions
\* before and between them, return the same nine values.
C1_Determinism ==
    \A a, b \in Threads :
        (/\ Returned(a, "generate_climate_data") /\ Returned(b, "generate_climate_data")
         /\ SameClimateArguments(call[a], call[b]))
        => call[a].data = call[b].data

\* both callers hold a snapshot of nine values for the same arguments
C1_Witness ==
    /\ Returned(1, "generate_climate_data") /\ Returned(2, "generate_climate_data")
    /\ SameClimateArguments(call[1], call[2])
    /\ Len(call[1].data) = 9 /\ Len(call[2].data) = 9

\* the result of the call f when it runs with no other call running
Alone(f) ==
    LET start == IF f.fn = "generate_climate_data"
                 THEN ClimateCall(f.country, f.region, f.timeframe, f.scenario)
                 ELSE SeriesCall(f.country, f.region, f.scenario, f.start_year, f.end_year)
    IN  RunCall(start, 0, hashSalt).f

\* C2: a call that runs while another call runs, their statements
\* interleaved, returns what it returns when it runs alone.
C2_ConcurrentCallsIndependent ==
    \A t \in Threads :
        call[t].status = "returned" =>
            /\ call[t].data = Alone(call[t]).data
            /\ call[t].cols = Alone(call[t]).cols

\* the order of the spec's list: the eight uniform draws, then the normal draw
ListOrder == <<MetricKeys[1], MetricKeys[2], MetricKeys[3], MetricKeys[4], MetricKeys[5], MetricKeys[6], MetricKeys[8], MetricKeys[9], MetricKeys[7]>>

\* the order of the code: the normal draw, then the eight uniform draws
CodeOrder == <<MetricKeys[7], MetricKeys[1], MetricKeys[2], MetricKeys[3], MetricKeys[4], MetricKeys[5], MetricKeys[6], MetricKeys[8], MetricKeys[9]>>

\* C3 as stated: generate_climate_data takes the eight uniform values first,
\* in the order of the list, and the economic-loss normal value 9th and last.
C3_NormalDrawLast ==
    Returned(1, "generate_climate_data") => call[1].draws = ListOrder

\* C3 as amended: the economic-loss normal value is the 1st value taken after
\* seeding, and the eight uniform values are the 2nd to 9th, in the order
\* Temperature Increase, Precipitation Change, Sea Level Rise, Drought Risk,
\* Flood Risk, Agricultural Yield Change, Health Impact Index, Water Stress
\* Index; each field is computed from the value at its place in the stream.
C3_NormalDrawFirst ==
    Returned(1, "generate_climate_data") =>
        LET f == call[1]
            g0 == SeedState(ClimateSeed(f.country, f.region, f.timeframe, f.scenario, hashSalt))
            sm == scenario_multiplier[f.scenario]
            tm == time_multiplier[f.timeframe]
            place(k) == IF k < 7 THEN k + 1 ELSE k
        IN  /\ f.draws = CodeOrder
            /\ f.economic_loss = EconomicLoss(f.region, sm, tm, Stream(g0, 1))
            /\ \A k \in (1..9) \ {7} :
                   f.data[k] = <<MetricKeys[k], EntryValue(k, Stream(g0, place(k)), sm, tm, f.economic_loss)>>

C3_Witness ==
    /\ Returned(1, "generate_climate_data")
    /\ Len(call[1].draws) = 9
    /\ call[1].draws[1] = "Economic Loss (billion USD)"
    /\ call[1].draws[9] = "Water Stress Index"

\* the place of a column's name in SeriesKeys
ColumnIndex(key) == CHOOSE c \in 1..Len(SeriesKeys) : SeriesKeys[c] = key

\* C4 as stated: generate_time_series takes its values year by year: every
\* value taken for a year is taken before every value taken for a later year.
C4_YearByYear ==
    call[1].fn = "generate_time_series" =>
        \A i, j \in 1..Len(call[1].draws) :
            call[1].draws[i][2] < call[1].draws[j][2] => i < j

\* C4 as amended: generate_time_series takes its values column by column, in
\* the order Temperature Change, Economic Impact, Agricultural Yield, Water
\* Availability, and within a column in ascending order of the year: every
\* value of a column (for all the years) is taken before every value of the
\* next column, and a returned series has taken four values per year.
C4_ColumnByColumn ==
    call[1].fn = "generate_time_series" =>
        LET d == call[1].draws
        IN  /\ \A i, j \in 1..Len(d) :
                   i < j <=> \/ ColumnIndex(d[i][1]) < ColumnIndex(d[j][1])
                             \/ ColumnIndex(d[i][1]) = ColumnIndex(d[j][1]) /\ d[i][2] < d[j][2]
            /\ call[1].status = "returned" => Len(d) = 4 * Len(call[1].years)

C4_Witness ==
    /\ Returned(1, "generate_time_series")
    /\ Len(call[1].draws) = 36
    /\ call[1].draws[9] = <<"Temperature Change", 2100>>
    /\ call[1].draws[10] = <<"Economic Impact", 2020>>

\* C5: a call with a country, a scenario or a timeframe that is in no table
\* ends in an error and returns nothing.
C5_UnrecognizedInputFails ==
    call[1].status = "returned" =>
        /\ call[1].country \in Range(country_list)
        /\ call[1].scenario \in DOMAIN scenario_multiplier
        /\ call[1].fn = "generate_climate_data" => call[1].timeframe \in DOMAIN time_multiplier

\* C6: the Economic Loss field of a returned snapshot is at least 0.1: it is
\* round(base * (1 + n), 2) when that is at least 0.1, and 0.1 otherwise.
C6_EconomicLossFloor ==
    Returned(1, "generate_climate_data") =>
        LET loss == Value(call[1].data, "Economic Loss (billion USD)")
            u == Stream(SeedState(ClimateSeed(call[1].country, call[1].region, call[1].timeframe, call[1].scenario, hashSalt)), 1)
            rounded == RoundDiv(Len(call[1].region) * 25 * scenario_multiplier[call[1].scenario] * time_multiplier[call[1].timeframe] * (1000 + NormalMilli(20, u)), 10000)
        IN  /\ loss >= 10
            /\ rounded >= 10 => loss = rounded
            /\ rounded < 10 => loss = 10

\* a returned snapshot whose normal value made 1 + n negative
C6_Witness ==
    /\ Returned(1, "generate_climate_data")
    /\ call[1].economic_loss < 0
    /\ Value(call[1].data, "Economic Loss (billion USD)") = 10

\* the years and columns of a returned series
SeriesShape(f) ==
    /\ Len(f.cols) = 4
    /\ \A c \in 1..4 : Len(f.cols[c]) = Len(f.years)
    /\ \A i \in 1..Len(f.years) : f.years[i] = f.start_year + 10 * (i - 1)
    /\ (f.start_year = 2020 /\ f.end_year = 2100) =>
            f.years = <<2020, 2030, 2040, 2050, 2060, 2070, 2080, 2090, 2100>>

\* C7 as stated: the series has the years start_year, start_year + 10, ...,
\* nine of them (2020 to 2100) for the defaults, every column as long as
\* Year, and end_year is among them exactly when end_year - start_year is a
\* multiple of 10.
C7_EndYearWhenMultipleOfTen ==
    Returned(1, "generate_time_series") =>
        LET f == call[1]
        IN  /\ SeriesShape(f)
            /\ f.end_year \in Range(f.years) <=> (f.end_year - f.start_year) % 10 = 0

\* C7 as amended: the same, with end_year among the years exactly when
\* end_year - start_year is a multiple of 10 that is not negative; when
\* end_year < start_year the series is empty.
C7_EndYearWhenReachable ==
    Returned(1, "generate_time_series") =>
        LET f == call[1]
        IN  /\ SeriesShape(f)
            /\ f.end_year \in Range(f.years) <=>
                   (f.end_year >= f.start_year /\ (f.end_year - f.start_year) % 10 = 0)
            /\ f.end_year < f.start_year => f.years = <<>>
            /\ f.end_year >= f.start_year => f.years # <<>> /\ f.years[Len(f.years)] > f.end_year - 10

C7_Witness ==
    /\ Returned(1, "generate_time_series")
    /\ call[1].start_year = 2020 /\ call[1].end_year = 2100
    /\ Len(call[1].years) = 9 /\ call[1].years[9] = 2100
    /\ Len(call[1].cols) = 4 /\ Len(call[1].cols[4]) = 9

\* the four indices of the snapshot (lines 134, 135, 138, 139)
IndexKeys == {"Drought Risk", "Flood Risk", "Health Impact Index", "Water Stress Index"}

\* C11: each of Drought Risk, Flood Risk, Health Impact Index and Water
\* Stress Index of a returned snapshot lies in [0, m], m the product of the
\* scenario's and the timeframe's multipliers (here in hundredths); so does
\* the rounded index for every value of the uniform draw's range [0, 100)
\* at the resolution of the generator, the values just below 100 included.
C11_IndexBounds ==
    Returned(1, "generate_climate_data") =>
        LET sm == scenario_multiplier[call[1].scenario]
            tm == time_multiplier[call[1].timeframe]
        IN  /\ \A key \in IndexKeys :
                   /\ Value(call[1].data, key) >= 0
                   /\ Value(call[1].data, key) <= sm * tm
            /\ \A num \in 0..(1000 * RngModulus - 1) :
                   /\ Round2(num, sm, tm) >= 0
                   /\ Round2(num, sm, tm) <= sm * tm

\* a returned snapshot for RCP 8.5 and 2100 with an index above 1, and a
\* value of the draw's range whose index rounds to 2.4
C11_Witness ==
    /\ Returned(1, "generate_climate_data")
    /\ call[1].scenario = "RCP 8.5 (High emissions)" /\ call[1].timeframe = "2100"
    /\ \E key \in IndexKeys : Value(call[1].data, key) > 100
    /\ \E num \in 0..(1000 * RngModulus - 1) : Round2(num, 15, 16) = 240

\* the rows of a series whose year is 2020
BaselineRows(f) == {i \in 1..Len(f.years) : f.years[i] = 2020}

\* C13: in a returned series the row of 2020 has Temperature Change 0,
\* Economic Impact 0, Agricultural Yield 100 and Water Availability 100,
\* whatever the region, the scenario and the values drawn; and a value was
\* taken from the generator for each of its four elements.
C13_BaselineRow ==
    Returned(1, "generate_time_series") =>
        LET f == call[1]
        IN  /\ \A i \in BaselineRows(f) :
                   /\ f.cols[1][i] = 0
                   /\ f.cols[2][i] = 0
                   /\ f.cols[3][i] = 1000
                   /\ f.cols[4][i] = 1000
                   /\ \A c \in 1..4 : <<SeriesKeys[c], 2020>> \in Range(f.draws)
            /\ Len(f.draws) = 4 * Len(f.years)

\* a returned series with a row of 2020 and another row whose values are
\* not those of the baseline
C13_Witness ==
    /\ Returned(1, "generate_time_series")
    /\ BaselineRows(call[1]) # {}
    /\ Len(call[1].years) >= 2
    /\ \E i \in 1..Len(call[1].years) :
          /\ call[1].years[i] # 2020
          /\ call[1].cols[1][i] # 0
          /\ call[1].cols[3][i] # 1000

(***************************************************************************)
(* The page script.  A run of the script reads the widgets, calls the two  *)
(* functions, draws the tabs and runs the handler of the button that was   *)
(* clicked.  An exception that no try block catches ends the run.          *)
(***************************************************************************)
\* lines 74-77: the regions offered for a country, or the default
SelectedRegions(country) ==
    IF country \in DOMAIN region_list THEN RegionsOf(country) ELSE {"All Regions"}

\* line 316
ComparisonRegions(country) ==
    IF country \in DOMAIN region_list
    THEN SubSeq(region_list[country], 1, Min(4, Len(region_list[country])))
    ELSE <<"Region A", "Region B", "Region C">>

\* lines 364-368: the options of the multiselect
ReportSections == {"Executive Summary", "Economic Impacts", "Physical Risk Metrics", "Sectoral Analysis", "Time Series Projections", "Regional Comparisons", "Adaptation Recommendations"}

\* the values of the multiselect that a run may get: every choice among the
\* five sections a handler reads, and the choice of all seven
ReportChoices ==
    SUBSET (ReportSections \ {"Time Series Projections", "Regional Comparisons"}) \cup {ReportSections}

Abort(pg, e) == [pg EXCEPT !.pc = "aborted", !.error = e]

\* lines 55-99: a run starts and the sidebar's widgets give their values
Rerun ==
    /\ page.pc = "idle"
    /\ \E country \in Countries, timeframe \in Timeframes, scenario \in Scenarios :
          \E region \in SelectedRegions(country) :
             page' = [NoPage EXCEPT !.pc = "generate",
                                    !.selected_country = country, !.selected_region = region,
                                    !.selected_timeframe = timeframe, !.selected_scenario = scenario]
    /\ UNCHANGED <<hashSalt, rng, call>>

\* lines 172-173: the two calls, one after the other, the second with the
\* default years; g is the generator's state before them
PageData(country, region, timeframe, scenario, g, salt) ==
    LET risk == RunCall(ClimateCall(country, region, timeframe, scenario), g, salt)
        series == RunCall(SeriesCall(country, region, scenario, 2020, 2100), risk.g, salt)
    IN  IF risk.f.status = "raised"
        THEN [error |-> risk.f.error, g |-> risk.g, risk_data |-> <<>>,
              time_series_data |-> [years |-> <<>>, cols |-> <<>>]]
        ELSE [error |-> series.f.error, g |-> series.g, risk_data |-> risk.f.data,
              time_series_data |-> [years |-> series.f.years, cols |-> series.f.cols]]

Generate ==
    /\ page.pc = "generate"
    /\ LET d == PageData(page.selected_country, page.selected_region, page.selected_timeframe, page.selected_scenario, rng, hashSalt)
       IN  /\ rng' = d.g
           /\ page' = IF d.error # "" THEN Abort(page, d.error)
                      ELSE [page EXCEPT !.pc = "tab1", !.risk_data = d.risk_data,
                                        !.time_series_data = d.time_series_data]
    /\ UNCHANGED <<hashSalt, call>>

\* lines 176-277: tab 1 shows the snapshot
Tab1 ==
    /\ page.pc = "tab1"
    /\ page' = [page EXCEPT !.pc = "tab2"]
    /\ UNCHANGED <<hashSalt, rng, call>>

\* lines 280-310: the line chart.  px is bound by no import of the file
\* (lines 1-11), so px.line raises NameError, which ends the run.  The run in
\* which the chart is drawn is kept as well, so that the code below it is
\* examined.
Tab2Line ==
    /\ page.pc = "tab2"
    /\ \E drawn \in BOOLEAN :
          page' = IF drawn THEN [page EXCEPT !.pc = "comparison"] ELSE Abort(page, "NameError")
    /\ UNCHANGED <<hashSalt, rng, call>>

\* lines 320-331: one list of comparison_data: a call for each region, and
\* the value of one key of each snapshot
RECURSIVE ComparisonList(_, _, _, _, _, _, _)
ComparisonList(regions, key, country, timeframe, scenario, g, salt) ==
    IF regions = <<>> THEN [values |-> <<>>, g |-> g]
    ELSE LET r == RunCall(ClimateCall(country, Head(regions), timeframe, scenario), g, salt)
             rest == ComparisonList(Tail(regions), key, country, timeframe, scenario, r.g, salt)
         IN  [values |-> <<Value(r.f.data, key)>> \o rest.values, g |-> rest.g]

\* lines 313-334
Comparison ==
    /\ page.pc = "comparison"
    /\ LET regions == ComparisonRegions(page.selected_country)
           list(key, g) == ComparisonList(regions, key, page.selected_country, page.selected_timeframe, page.selected_scenario, g, hashSalt)
           loss == list("Economic Loss (billion USD)", rng)
           temperature == list("Temperature Increase", loss.g)
           yield == list("Agricultural Yield Change", temperature.g)
       IN  /\ rng' = yield.g
           /\ page' = [page EXCEPT !.pc = "tab2_bar", !.comparison_regions = regions,
                                   !.comparison_data = <<loss.values, temperature.values, yield.values>>]
    /\ UNCHANGED <<hashSalt, call>>

\* lines 336-352: the bar chart, with px as in Tab2Line
Tab2Bar ==
    /\ page.pc = "tab2_bar"
    /\ \E drawn \in BOOLEAN :
          page' = IF drawn THEN [page EXCEPT !.pc = "report_options"] ELSE Abort(page, "NameError")
    /\ UNCHANGED <<hashSalt, rng, call>>

\* lines 355-372: tab 3 starts; the multiselect gives the chosen sections.
\* A click on a button starts a run in which that button, and no other, is
\* true (lines 377, 428).
ReportOptions ==
    /\ page.pc = "report_options"
    /\ \E options \in ReportChoices, clicked \in {"none"} \cup Kinds :
          page' = [page EXCEPT !.pc = "button", !.kind = "pdf",
                               !.report_options = options, !.clicked = clicked]
    /\ UNCHANGED <<hashSalt, rng, call>>

\* what follows a report handler: the DOCX column after the PDF column, the
\* data export after the DOCX column
After(pg) ==
    IF pg.kind = "pdf" THEN [pg EXCEPT !.pc = "button", !.kind = "docx"]
    ELSE [pg EXCEPT !.pc = "export", !.kind = ""]

\* lines 422-423, 497-498: the except clause shows the error; the handler is
\* left.  step is the statement that raised.
Except(pg, step) ==
    After([pg EXCEPT !.raised[pg.kind] = step, !.tab3 = Append(@, <<pg.kind, "error">>)])

\* lines 377, 428: if st.button(...)
Button ==
    /\ page.pc = "button"
    /\ page' = IF page.clicked = page.kind THEN [page EXCEPT !.pc = "tempfile"] ELSE After(page)
    /\ UNCHANGED <<hashSalt, rng, call>>

\* lines 380-381, 431-432: the temporary file
TempFile ==
    /\ page.pc = "tempfile"
    /\ \E ok \in BOOLEAN :
          page' = IF ok THEN [page EXCEPT !.pc = "write", !.temp = @ \cup {page.kind}]
                  ELSE Except(page, "tempfile")
    /\ UNCHANGED <<hashSalt, rng, call>>

\* lines 384-403: the headings drawn on the PDF's canvas
PdfHeadings == <<"Climate Risk Assessment Report", "Economic Impact Assessment", "Physical Risk Metrics">>

Optional(present, heading) == IF present THEN <<heading>> ELSE <<>>

\* lines 435-478: the headings added to the DOCX document
DocxHeadings(options, region, country) ==
    <<"Climate Risk Assessment Report", region \o ", " \o country>>
    \o Optional("Executive Summary" \in options, "Executive Summary")
    \o Optional("Economic Impacts" \in options, "Economic Impact Assessment")
    \o Optional("Physical Risk Metrics" \in options, "Physical Risk Metrics")
    \o Optional("Sectoral Analysis" \in options, "Sectoral Impact Analysis")
    \o Optional("Adaptation Recommendations" \in options, "Adaptation Recommendations")

Headings(pg) ==
    IF pg.kind = "pdf" THEN PdfHeadings
    ELSE DocxHeadings(pg.report_options, pg.selected_region, pg.selected_country)

\* lines 384-403, 435-478: the document is written in memory
Write ==
    /\ page.pc = "write"
    /\ \E ok \in BOOLEAN :
          page' = IF ok THEN [page EXCEPT !.pc = "save", !.doc[page.kind].headings = Headings(page)]
                  ELSE Except(page, "write")
    /\ UNCHANGED <<hashSalt, rng, call>>

\* lines 406-408, 481-483: the document is saved to the temporary file, and
\* the success message is shown
Save ==
    /\ page.pc = "save"
    /\ \E ok \in BOOLEAN :
          page' = IF ok THEN [page EXCEPT !.pc = "open", !.doc[page.kind].saved = TRUE,
                                          !.tab3 = Append(@, <<page.kind, "success">>)]
                  ELSE Except(page, "save")
    /\ UNCHANGED <<hashSalt, rng, call>>

\* lines 411, 486: the file is opened again
Open ==
    /\ page.pc = "open"
    /\ \E ok \in BOOLEAN :
          page' = IF ok THEN [page EXCEPT !.pc = "download"] ELSE Except(page, "open")
    /\ UNCHANGED <<hashSalt, rng, call>>

\* lines 412-417, 487-492: the download button
Download ==
    /\ page.pc = "download"
    /\ \E ok \in BOOLEAN :
          page' = IF ok THEN [page EXCEPT !.pc = "unlink", !.tab3 = Append(@, <<page.kind, "download">>)]
                  ELSE Except(page, "download")
    /\ UNCHANGED <<hashSalt, rng, call>>

\* lines 420, 495: the temporary file is deleted
Unlink ==
    /\ page.pc = "unlink"
    /\ \E ok \in BOOLEAN :
          page' = IF ok THEN After([page EXCEPT !.temp = @ \ {page.kind}])
                  ELSE Except(page, "unlink")
    /\ UNCHANGED <<hashSalt, rng, call>>

\* lines 505-512: one row for each entry of risk_data
ExportRows(pg) ==
    [k \in 1..Len(pg.risk_data) |->
        [Metric |-> pg.risk_data[k][1], Value |-> pg.risk_data[k][2],
         Region |-> pg.selected_region, Country |-> pg.selected_country,
         Scenario |-> pg.selected_scenario, Timeframe |-> pg.selected_timeframe]]

\* lines 505-512: the columns of export_data, in the order of the dict
ExportColumns == <<"Metric", "Value", "Region", "Country", "Scenario", "Timeframe">>

\* lines 519, 529: export_data.to_csv(index=False): the line of the column
\* names, then one line of values for each row
to_csv(rows) ==
    <<ExportColumns>> \o [k \in 1..Len(rows) |-> [j \in 1..Len(ExportColumns) |-> rows[k][ExportColumns[j]]]]

\* line 537: export_data.to_json(orient="records"): one object for each row,
\* keyed by the column names
to_json(rows) ==
    [k \in 1..Len(rows) |-> [c \in Range(ExportColumns) |-> rows[k][c]]]

\* lines 518-543: the file offered for a format; Excel falls back to CSV
ExportFile(format, rows) ==
    IF format = "JSON"
    THEN [label |-> "Download JSON", mime |-> "application/json", data |-> to_json(rows)]
    ELSE [label |-> IF format = "CSV" THEN "Download CSV"
                    ELSE "Download as CSV (Excel format not available in this version)",
          mime |-> "text/csv", data |-> to_csv(rows)]

\* lines 500-543: the raw-data export; the run ends after it
Export ==
    /\ page.pc = "export"
    /\ \E format \in {"CSV", "Excel", "JSON"} :
          page' = [page EXCEPT !.pc = "done", !.export_format = format,
                               !.export_data = ExportRows(page),
                               !.download = <<ExportFile(format, ExportRows(page))>>]
    /\ UNCHANGED <<hashSalt, rng, call>>

\* the run is over (after line 553, or at the exception that ended it): its
\* variables and its output are dropped
Finish ==
    /\ page.pc \in {"done", "aborted"}
    /\ page' = NoPage
    /\ UNCHANGED <<hashSalt, rng, call>>

NextPage ==
    \/ Rerun
    \/ Finish
    \/ Generate
    \/ Tab1
    \/ Tab2Line
    \/ Comparison
    \/ Tab2Bar
    \/ ReportOptions
    \/ Button
    \/ TempFile
    \/ Write
    \/ Save
    \/ Open
    \/ Download
    \/ Unlink
    \/ Export

SpecPage == Init /\ [][NextPage]_vars

(***************************************************************************)
(* Claims about the page.                                                  *)
(***************************************************************************)
Shown(kind, what) == <<kind, what>> \in Range(page.tab3)

C9_SeriesIndependentOfTimeframe ==
    page.pc = "tab1" =>
        \A timeframe \in Timeframes, g \in RngStates :
            PageData(page.selected_country, page.selected_region, timeframe, page.selected_scenario, g, hashSalt).time_series_data
                = page.time_series_data

\* a page whose snapshot would differ with another timeframe, and whose
\* nine-year series would not
C9_Witness ==
    /\ page.pc = "tab1"
    /\ Len(page.time_series_data.years) = 9
    /\ \E timeframe \in Timeframes \ {page.selected_timeframe} :
          LET other == PageData(page.selected_country, page.selected_region, timeframe, page.selected_scenario, 0, hashSalt)
          IN  /\ other.risk_data # page.risk_data
              /\ other.time_series_data = page.time_series_data

ExportTable(pg) ==
    /\ Len(pg.export_data) = 9
    /\ \A k \in 1..9 :
          pg.export_data[k] =
              [Metric |-> MetricKeys[k], Value |-> Value(pg.risk_data, MetricKeys[k]),
               Region |-> pg.selected_region, Country |-> pg.selected_country,
               Scenario |-> pg.selected_scenario, Timeframe |-> pg.selected_timeframe]
    /\ Len(pg.download) = 1
    /\ LET file == pg.download[1]
       IN  IF pg.export_format = "JSON"
           THEN /\ file.mime = "application/json"
                /\ Len(file.data) = 9
                /\ \A k \in 1..9 : \A c \in Range(ExportColumns) : file.data[k][c] = pg.export_data[k][c]
           ELSE /\ pg.export_format \in {"CSV", "Excel"}
                /\ file.mime = "text/csv"
                /\ Len(file.data) = 10
                /\ file.data[1] = ExportColumns
                /\ \A k \in 1..9 : \A j \in 1..6 : file.data[k + 1][j] = pg.export_data[k][ExportColumns[j]]

\* C12: for every selection, the run that generated the snapshot ends with
\* the export table of that snapshot: one row for each of the nine metrics,
\* in the order of the snapshot's keys, with the snapshot's value and the
\* selection in it, and the chosen format's file holding that same table.
C12_ExportRecords ==
    (page.pc \in {"done", "aborted"} /\ page.risk_data # <<>>) => ExportTable(page)

=============================================================================
